---- MODULE Spec2Model ----
(***************************************************************************)
(* Model of the BudgetTracker report pipeline (src/app.py): the Flask      *)
(* handlers home() and report(), and the pandas pipeline load_csv ->       *)
(* classify_transactions -> generate_chart they run.                       *)
(*                                                                         *)
(* Text is a sequence of one-character strings, so that strip(), lower(),  *)
(* endswith(), number and date parsing are computed character by           *)
(* character.  A cell of a DataFrame is a tagged record: NaN, NaT, a       *)
(* string, a number, a date or a boolean.  Amounts are integers (whole     *)
(* currency units), for which the float64 sums of pandas are exact.        *)
(* Column labels of a file are unique after strip().lower().  Dates are    *)
(* written NN/NN/YYYY; any other text is an unreadable date.               *)
(***************************************************************************)
EXTENDS Integers, Sequences, FiniteSets, TLC

VARIABLES fs, request, response

vars == <<fs, request, response>>

\* ---------------------------------------------------------------- bounds
MaxRows == 2

\* ------------------------------------------------------------ characters
UpperChars == <<"A","B","C","D","E","F","G","H","I","J","K","L","M","N","O","P","Q","R","S","T","U","V","W","X","Y","Z">>

LowerChars == <<"a","b","c","d","e","f","g","h","i","j","k","l","m","n","o","p","q","r","s","t","u","v","w","x","y","z">>

DigitChars == <<"0","1","2","3","4","5","6","7","8","9">>

\* the characters of the model in code-point order
CharOrder == <<" ", "-", ".", "/">> \o DigitChars \o UpperChars \o <<"_">> \o LowerChars

IndexOf(seq, c) == CHOOSE i \in 1..Len(seq) : seq[i] = c

InSeq(seq, c) == \E i \in 1..Len(seq) : seq[i] = c

ord(c) == IndexOf(CharOrder, c)

lower_char(c) == IF InSeq(UpperChars, c) THEN LowerChars[IndexOf(UpperChars, c)] ELSE c

lower(s) == [i \in 1..Len(s) |-> lower_char(s[i])]

RECURSIVE lstrip(_)
lstrip(s) == IF s # <<>> /\ Head(s) = " " THEN lstrip(Tail(s)) ELSE s

RECURSIVE rstrip(_)
rstrip(s) == IF s # <<>> /\ s[Len(s)] = " " THEN rstrip(SubSeq(s, 1, Len(s) - 1)) ELSE s

strip(s) == rstrip(lstrip(s))

endswith(s, suffix) ==
    /\ Len(s) >= Len(suffix)
    /\ SubSeq(s, Len(s) - Len(suffix) + 1, Len(s)) = suffix

startswith(s, prefix) == Len(s) >= Len(prefix) /\ SubSeq(s, 1, Len(prefix)) = prefix

\* s < t in Python's string order
RECURSIVE str_lt(_, _)
str_lt(s, t) ==
    IF t = <<>> THEN FALSE
    ELSE IF s = <<>> THEN TRUE
    ELSE IF Head(s) # Head(t) THEN ord(Head(s)) < ord(Head(t))
    ELSE str_lt(Tail(s), Tail(t))

\* sorted(set of strings): the ascending list
RECURSIVE sorted(_)
sorted(S) ==
    IF S = {} THEN <<>>
    ELSE LET m == CHOOSE x \in S : \A y \in S \ {x} : str_lt(x, y)
         IN  <<m>> \o sorted(S \ {m})

\* s.split(sep) for a one-character separator
RECURSIVE split(_, _)
split(s, sep) ==
    IF ~InSeq(s, sep) THEN <<s>>
    ELSE LET i == CHOOSE j \in 1..Len(s) : s[j] = sep /\ \A k \in 1..(j - 1) : s[k] # sep
         IN  <<SubSeq(s, 1, i - 1)>> \o split(SubSeq(s, i + 1, Len(s)), sep)

\* ------------------------------------------------------------ file system
\* os.path.dirname(__file__)
APP_DIR == <<<<"s", "r", "v">>, <<"a", "p", "p">>>>

DATA_DIR == APP_DIR \o <<<<"t", "r", "a", "n", "s", "a", "c", "t", "i", "o", "n", "s">>>>

\* the column labels the code uses, and an extra column of the input files
DATE == <<"d", "a", "t", "e">>

AMOUNT == <<"a", "m", "o", "u", "n", "t">>

TRANSACTION_TYPE == <<"t", "r", "a", "n", "s", "a", "c", "t", "i", "o", "n", " ", "t", "y", "p", "e">>

TRANSACTION_DETAILS == <<"t", "r", "a", "n", "s", "a", "c", "t", "i", "o", "n", " ", "d", "e", "t", "a", "i", "l", "s">>

CATEGORY == <<"c", "a", "t", "e", "g", "o", "r", "y">>

MERCHANT_NAME == <<"m", "e", "r", "c", "h", "a", "n", "t", " ", "n", "a", "m", "e">>

DATE_SORT == <<"d", "a", "t", "e", "_", "s", "o", "r", "t">>

IS_INCOME == <<"i", "s", "_", "i", "n", "c", "o", "m", "e">>

IS_EXPENSE == <<"i", "s", "_", "e", "x", "p", "e", "n", "s", "e">>

NOTES == <<"n", "o", "t", "e", "s">>

\* the default category of line 59
Uncategorized == <<"U", "n", "c", "a", "t", "e", "g", "o", "r", "i", "z", "e", "d">>

EXPECTED_COLS == <<DATE, AMOUNT, TRANSACTION_TYPE, TRANSACTION_DETAILS, CATEGORY, MERCHANT_NAME>>

\* the kernel's path walk: "." and "" are skipped, ".." goes to the parent
RECURSIVE resolve(_, _)
resolve(done, parts) ==
    IF parts = <<>> THEN done
    ELSE LET p == Head(parts)
         IN  IF p = <<>> \/ p = <<".">> THEN resolve(done, Tail(parts))
             ELSE IF p = <<".", ".">>
                  THEN resolve(IF done = <<>> THEN done ELSE SubSeq(done, 1, Len(done) - 1), Tail(parts))
             ELSE resolve(Append(done, p), Tail(parts))

\* os.path.join(dir, filename): an absolute filename replaces dir
path_join(dir, filename) ==
    IF startswith(filename, <<"/">>) THEN split(filename, "/")
    ELSE dir \o split(filename, "/")

isdir(path) ==
    LET p == resolve(<<>>, path)
    IN  p \in DOMAIN fs /\ fs[p].type = "dir"

isfile(path) ==
    LET p == resolve(<<>>, path)
    IN  p \in DOMAIN fs /\ fs[p].type = "file"

\* os.listdir: the names of the entries directly under path
listdir(path) ==
    LET d == resolve(<<>>, path)
    IN  {p[Len(p)] : p \in {q \in DOMAIN fs : Len(q) = Len(d) + 1 /\ SubSeq(q, 1, Len(d)) = d}}

list_csv_files ==
    IF ~isdir(DATA_DIR) THEN <<>>
    ELSE sorted({f \in listdir(DATA_DIR) : endswith(f, <<".", "c", "s", "v">>)})

\* ------------------------------------------------------------------ cells
NaN == [k |-> "nan"]

NaT == [k |-> "nat"]

StrCell(s) == [k |-> "str", s |-> s]

NumCell(n) == [k |-> "num", n |-> n]

DateCell(y, m, d) == [k |-> "date", ord |-> (y * 10000) + (m * 100) + d]

BoolCell(b) == [k |-> "bool", b |-> b]

isna(c) == c.k \in {"nan", "nat"}

\* the texts pandas.read_csv reads as a missing value (its default na_values)
NA_VALUES == {<<>>, <<"N", "/", "A">>, <<"N", "A">>, <<"N", "U", "L", "L">>, <<"N", "a", "N">>, <<"N", "o", "n", "e">>, <<"n", "/", "a">>, <<"n", "a", "n">>, <<"n", "u", "l", "l">>}

IsDigits(s) == s # <<>> /\ \A i \in 1..Len(s) : InSeq(DigitChars, s[i])

RECURSIVE parse_digits(_)
parse_digits(s) ==
    IF s = <<>> THEN 0
    ELSE (10 * parse_digits(SubSeq(s, 1, Len(s) - 1))) + (IndexOf(DigitChars, s[Len(s)]) - 1)

\* to_numeric reading a text that is not a number as 0
to_numeric_zero(c) ==
    IF c.k = "num" THEN c
    ELSE IF c.k # "str" THEN NaN
    ELSE IF IsDigits(c.s) THEN NumCell(parse_digits(c.s))
    ELSE IF Len(c.s) > 1 /\ Head(c.s) = "-" /\ IsDigits(Tail(c.s)) THEN NumCell(0 - parse_digits(Tail(c.s)))
    ELSE NumCell(0)

\* pd.to_numeric(errors="coerce") on one value
to_numeric(c) ==
    IF c.k = "num" THEN c
    ELSE IF c.k # "str" THEN NaN
    ELSE IF IsDigits(c.s) THEN NumCell(parse_digits(c.s))
    ELSE IF Len(c.s) > 1 /\ Head(c.s) = "-" /\ IsDigits(Tail(c.s)) THEN NumCell(0 - parse_digits(Tail(c.s)))
    ELSE NaN

\* pd.to_datetime(errors="coerce", dayfirst=...) on one value written NN/NN/YYYY
to_datetime(c, dayfirst) ==
    IF c.k = "date" THEN c
    ELSE IF c.k # "str" THEN NaT
    ELSE LET s == c.s
             a == parse_digits(SubSeq(s, 1, 2))
             b == parse_digits(SubSeq(s, 4, 5))
             y == parse_digits(SubSeq(s, 7, 10))
             d == IF dayfirst THEN a ELSE b
             m == IF dayfirst THEN b ELSE a
         IN  IF /\ Len(s) = 10
                /\ s[3] = "/" /\ s[6] = "/"
                /\ IsDigits(SubSeq(s, 1, 2)) /\ IsDigits(SubSeq(s, 4, 5)) /\ IsDigits(SubSeq(s, 7, 10))
                /\ m \in 1..12 /\ d \in 1..31
             THEN DateCell(y, m, d)
             ELSE NaT

\* astype(str) without fillna: a missing value becomes the text "nan"
fillna_str_nan(c, value) == IF isna(c) THEN StrCell(<<"n", "a", "n">>) ELSE c

\* Series.fillna(value).astype(str) on one value of a text column
fillna_str(c, value) == IF isna(c) THEN StrCell(value) ELSE c

\* the three coercions applied to a whole column
apply_datetime(cells, dayfirst) == [i \in 1..Len(cells) |-> to_datetime(cells[i], dayfirst)]

apply_numeric(cells) == [i \in 1..Len(cells) |-> to_numeric(cells[i])]

apply_fillna(cells, value) == [i \in 1..Len(cells) |-> fillna_str(cells[i], value)]

\* ------------------------------------------------------------- DataFrame
\* [columns |-> the labels, data |-> the rows, each a sequence of cells]
has_column(df, name) == InSeq(df.columns, name)

column(df, name) ==
    LET j == IndexOf(df.columns, name)
    IN  [i \in 1..Len(df.data) |-> df.data[i][j]]

\* df[name] = values
set_column(df, name, values) ==
    IF has_column(df, name)
    THEN LET j == IndexOf(df.columns, name)
         IN  [df EXCEPT !.data = [i \in 1..Len(df.data) |-> [df.data[i] EXCEPT ![j] = values[i]]]]
    ELSE [columns |-> Append(df.columns, name),
          data |-> [i \in 1..Len(df.data) |-> Append(df.data[i], values[i])]]

\* pd.read_csv: the header row is the column labels, an NA text is NaN
read_csv(path) ==
    LET file == fs[resolve(<<>>, path)]
        cell(t) == IF t \in NA_VALUES THEN NaN ELSE StrCell(t)
    IN  [columns |-> file.header,
         data |-> [i \in 1..Len(file.lines) |-> [j \in 1..Len(file.lines[i]) |-> cell(file.lines[i][j])]]]

Perms(n) == {p \in [1..n -> 1..n] : \A i, j \in 1..n : p[i] = p[j] => i = j}

sort_key(c) == IF c.k = "date" THEN c.ord ELSE c.n

\* argsort with kind="quicksort", na_position="last": ascending keys, the
\* missing values last in their input order; quicksort is not a stable
\* sort, so equal keys come out in any order
argsort(keys) ==
    {p \in Perms(Len(keys)) :
        \A i, j \in 1..Len(keys) : i < j =>
            IF isna(keys[p[i]]) THEN isna(keys[p[j]]) /\ p[i] < p[j]
            ELSE isna(keys[p[j]]) \/ sort_key(keys[p[i]]) <= sort_key(keys[p[j]])}

take(df, p) == [df EXCEPT !.data = [i \in 1..Len(df.data) |-> df.data[p[i]]]]

\* DataFrame.sort_values(by=name, ascending=True): the possible results
sort_values(df, name) == {take(df, p) : p \in argsort(column(df, name))}

drop_column(df, name) ==
    LET j == IndexOf(df.columns, name)
        cut(s) == SubSeq(s, 1, j - 1) \o SubSeq(s, j + 1, Len(s))
    IN  [columns |-> cut(df.columns), data |-> [i \in 1..Len(df.data) |-> cut(df.data[i])]]

\* abort(code, description)
abort(code, description, columns) ==
    [status |-> code, template |-> "error", error |-> description, missing |-> columns]

\* the labels stripped but not lowercased
normalize_columns_strip(columns) == [i \in 1..Len(columns) |-> strip(columns[i])]

normalize_columns(columns) == [i \in 1..Len(columns) |-> lower(strip(columns[i]))]

missing_columns(columns) == SelectSeq(EXPECTED_COLS, LAMBDA c : ~InSeq(columns, c))

\* lines 48-62: the coercions and text defaults
normalize_fields(df) ==
    LET d1 == set_column(df, DATE, apply_datetime(column(df, DATE), TRUE))
        d2 == set_column(d1, AMOUNT, apply_numeric(column(d1, AMOUNT)))
        d3 == set_column(d2, CATEGORY, apply_fillna(column(d2, CATEGORY), Uncategorized))
        d4 == set_column(d3, TRANSACTION_TYPE, apply_fillna(column(d3, TRANSACTION_TYPE), <<>>))
        d5 == set_column(d4, TRANSACTION_DETAILS, apply_fillna(column(d4, TRANSACTION_DETAILS), <<>>))
    IN  set_column(d5, MERCHANT_NAME, apply_fillna(column(d5, MERCHANT_NAME), <<>>))

\* lines 64-70: sort on a temporary copy of the date column
sort_by_date(df) ==
    LET tmp == set_column(df, DATE_SORT, apply_datetime(column(df, DATE), FALSE))
    IN  {drop_column(d, DATE_SORT) : d \in sort_values(tmp, DATE_SORT)}

\* lines 40-70 on a DataFrame: the outcomes, an abort or a sorted table
normalize(df0) ==
    LET df == [df0 EXCEPT !.columns = normalize_columns(df0.columns)]
        missing == missing_columns(df.columns)
    IN  IF missing # <<>> THEN {abort(400, "Missing columns", missing)}
        ELSE {[status |-> 200, template |-> "df", df |-> d] : d \in sort_by_date(normalize_fields(df))}

load_csv(filename) ==
    LET path == path_join(DATA_DIR, filename)
    IN  IF ~isfile(path) THEN {abort(404, "File not found", <<>>)}
        ELSE normalize(read_csv(path))

\* ------------------------------------------------------------- pipeline
gt0(c) == c.k = "num" /\ c.n > 0

lt0(c) == c.k = "num" /\ c.n < 0

\* df["amount"] > 0 and df["amount"] < 0
apply_gt0(cells) == [i \in 1..Len(cells) |-> BoolCell(gt0(cells[i]))]

apply_lt0(cells) == [i \in 1..Len(cells) |-> BoolCell(lt0(cells[i]))]

\* df["amount"] >= 0
apply_ge0(cells) == [i \in 1..Len(cells) |-> BoolCell(cells[i].k = "num" /\ cells[i].n >= 0)]

\* the income flag set with >= instead of >
classify_transactions_ge(df) ==
    LET d1 == set_column(df, IS_INCOME, apply_ge0(column(df, AMOUNT)))
    IN  set_column(d1, IS_EXPENSE, apply_lt0(column(d1, AMOUNT)))

classify_transactions(df) ==
    LET d1 == set_column(df, IS_INCOME, apply_gt0(column(df, AMOUNT)))
    IN  set_column(d1, IS_EXPENSE, apply_lt0(column(d1, AMOUNT)))

\* Series.sum(): missing values are skipped, the empty sum is 0
RECURSIVE series_sum(_)
series_sum(cells) ==
    IF cells = <<>> THEN 0
    ELSE (IF isna(Head(cells)) THEN 0 ELSE Head(cells).n) + series_sum(Tail(cells))

\* df[df[flag]]["amount"]
masked_amounts(df, flag) ==
    LET amounts == column(df, AMOUNT)
        mask == column(df, flag)
        keep == {i \in 1..Len(amounts) : mask[i].b}
        RECURSIVE pick(_)
        pick(i) == IF i > Len(amounts) THEN <<>>
                   ELSE (IF i \in keep THEN <<amounts[i]>> ELSE <<>>) \o pick(i + 1)
    IN  pick(1)

\* groupby summing the absolute amounts
groupby_sum_abs(df) ==
    LET cats == column(df, CATEGORY)
        amounts == column(df, AMOUNT)
        keys == sorted({cats[i].s : i \in {j \in 1..Len(cats) : ~isna(cats[j])}})
        abs(c) == IF lt0(c) THEN NumCell(0 - c.n) ELSE c
        RECURSIVE group(_, _)
        group(key, i) == IF i > Len(cats) THEN <<>>
                         ELSE (IF ~isna(cats[i]) /\ cats[i].s = key THEN <<abs(amounts[i])>> ELSE <<>>) \o group(key, i + 1)
    IN  [index |-> keys, values |-> [i \in 1..Len(keys) |-> series_sum(group(keys[i], 1))]]

\* df.groupby("category")["amount"].sum(): a Series indexed by the sorted group keys
groupby_sum(df) ==
    LET cats == column(df, CATEGORY)
        amounts == column(df, AMOUNT)
        keys == sorted({cats[i].s : i \in {j \in 1..Len(cats) : ~isna(cats[j])}})
        RECURSIVE group(_, _)
        group(key, i) == IF i > Len(cats) THEN <<>>
                         ELSE (IF ~isna(cats[i]) /\ cats[i].s = key THEN <<amounts[i]>> ELSE <<>>) \o group(key, i + 1)
    IN  [index |-> keys, values |-> [i \in 1..Len(keys) |-> series_sum(group(keys[i], 1))]]

\* Series.sort_values(): the possible results
series_sort_values(ser) ==
    {[index |-> [i \in 1..Len(ser.index) |-> ser.index[p[i]]],
      values |-> [i \in 1..Len(ser.index) |-> ser.values[p[i]]]] :
        p \in argsort([i \in 1..Len(ser.values) |-> NumCell(ser.values[i])])}

\* ser[ser <= 0]
series_negative_le(ser) ==
    LET RECURSIVE pick(_)
        pick(i) == IF i > Len(ser.values) THEN <<>>
                   ELSE (IF ser.values[i] <= 0 THEN <<i>> ELSE <<>>) \o pick(i + 1)
        keep == pick(1)
    IN  [index |-> [i \in 1..Len(keep) |-> ser.index[keep[i]]],
         values |-> [i \in 1..Len(keep) |-> ser.values[keep[i]]]]

\* ser[ser < 0]
series_negative(ser) ==
    LET RECURSIVE pick(_)
        pick(i) == IF i > Len(ser.values) THEN <<>>
                   ELSE (IF ser.values[i] < 0 THEN <<i>> ELSE <<>>) \o pick(i + 1)
        keep == pick(1)
    IN  [index |-> [i \in 1..Len(keep) |-> ser.index[keep[i]]],
         values |-> [i \in 1..Len(keep) |-> ser.values[keep[i]]]]

\* Series.to_dict()
series_to_dict(ser) ==
    [key \in {ser.index[i] : i \in 1..Len(ser.index)} |-> ser.values[IndexOf(ser.index, key)]]

\* DataFrame.to_dict(orient="records")
to_records(df) ==
    [i \in 1..Len(df.data) |->
        [c \in {df.columns[j] : j \in 1..Len(df.columns)} |-> df.data[i][IndexOf(df.columns, c)]]]

\* the chart is its bars: one per category, green above zero, tomato otherwise
generate_chart(df) ==
    {[img |-> [i \in 1..Len(sums.index) |->
                  [label |-> sums.index[i], height |-> sums.values[i],
                   color |-> IF sums.values[i] > 0 THEN "green" ELSE "tomato"]],
      category_sums |-> sums] : sums \in series_sort_values(groupby_sum(df))}

\* the responses report() can give to ?file=filename
report(filename) ==
    IF filename = <<>> THEN {abort(400, "No file selected", <<>>)}
    ELSE UNION {
        IF loaded.status # 200 THEN {loaded}
        ELSE LET df == classify_transactions(loaded.df)
                 total_income == series_sum(masked_amounts(df, IS_INCOME))
                 total_expense == series_sum(masked_amounts(df, IS_EXPENSE))
             IN  UNION {
                 {[status |-> 200,
                   template |-> "report.html",
                   filename |-> filename,
                   income |-> total_income,
                   expense |-> total_expense,
                   net |-> total_income + total_expense,
                   graph |-> chart.img,
                   category_totals |-> chart.category_sums,
                   table |-> to_records(df),
                   spent_per_category |-> series_to_dict(spent)] :
                     spent \in series_sort_values(series_negative(chart.category_sums))}
                 : chart \in generate_chart(df)}
        : loaded \in load_csv(filename)}

\* ----------------------------------------------------------------- inputs
upper_char(c) == IF InSeq(LowerChars, c) THEN UpperChars[IndexOf(LowerChars, c)] ELSE c

\* a label written with other case and padding
Variant(label) == <<" ">> \o [i \in 1..Len(label) |-> upper_char(label[i])] \o <<" ", " ">>

AmountTexts == {<<"5">>, <<"-", "5">>, <<"0">>, <<"N", "/", "A">>}

CategoryTexts == {<<>>, <<"F">>, <<" ", "F">>}

\* the fields of one line of a transactions file: every mix of the amounts
\* and categories above on 1 February 2024, two lines on 2 January 2024, a
\* line with an unreadable date and a line with an unreadable amount
Lines ==
    [date : {<<"0", "1", "/", "0", "2", "/", "2", "0", "2", "4">>}, amount : AmountTexts, category : CategoryTexts]
    \cup {[date |-> <<"0", "2", "/", "0", "1", "/", "2", "0", "2", "4">>, amount |-> <<"5">>, category |-> <<"F">>],
          [date |-> <<"0", "2", "/", "0", "1", "/", "2", "0", "2", "4">>, amount |-> <<"-", "5">>, category |-> <<>>],
          [date |-> <<"b", "a", "d">>, amount |-> <<"5">>, category |-> <<"F">>],
          [date |-> <<"0", "1", "/", "0", "2", "/", "2", "0", "2", "4">>, amount |-> <<"x">>, category |-> <<"F">>]}

RECURSIVE SeqsUpTo(_, _)
SeqsUpTo(S, n) ==
    IF n = 0 THEN {<<>>}
    ELSE LET shorter == SeqsUpTo(S, n - 1)
         IN  shorter \cup {Append(t, x) : t \in {u \in shorter : Len(u) = n - 1}, x \in S}

Tables == SeqsUpTo(Lines, MaxRows)

\* how each expected column is written in the header row
HeaderChoices == [1..Len(EXPECTED_COLS) -> {"absent", "exact", "variant"}]

FieldText(line, col) ==
    IF col = DATE THEN line.date
    ELSE IF col = AMOUNT THEN line.amount
    ELSE IF col = CATEGORY THEN line.category
    ELSE IF col = TRANSACTION_DETAILS THEN <<"x">>
    ELSE IF col = NOTES THEN <<"n">>
    ELSE <<>>

\* a file: an optional extra column first, then the chosen expected columns
MakeFile(choice, extra, table) ==
    LET cols == (IF extra THEN <<NOTES>> ELSE <<>>)
                \o SelectSeq(EXPECTED_COLS, LAMBDA c : choice[IndexOf(EXPECTED_COLS, c)] # "absent")
        label(c) == IF c # NOTES /\ choice[IndexOf(EXPECTED_COLS, c)] = "variant" THEN Variant(c) ELSE c
    IN  [type |-> "file",
         header |-> [j \in 1..Len(cols) |-> label(cols[j])],
         lines |-> [i \in 1..Len(table) |-> [j \in 1..Len(cols) |-> FieldText(table[i], cols[j])]]]

AllVariant == [i \in 1..Len(EXPECTED_COLS) |-> "variant"]

AllExact == [i \in 1..Len(EXPECTED_COLS) |-> "exact"]

OneLine == <<[date |-> <<"0", "1", "/", "0", "2", "/", "2", "0", "2", "4">>, amount |-> <<"-", "5">>, category |-> <<"F">>]>>

Files ==
    {MakeFile(AllVariant, TRUE, t) : t \in Tables}
    \cup {MakeFile(ch, extra, OneLine) : ch \in HeaderChoices, extra \in BOOLEAN}

Dir == [type |-> "dir"]

\* the application folder: transactions/a.csv, transactions/notes.txt, and
\* a CSV file b.csv next to app.py, outside the transactions folder
FileSystem(file) ==
    (<<APP_DIR[1]>> :> Dir) @@ (APP_DIR :> Dir) @@ (DATA_DIR :> Dir)
    @@ (Append(DATA_DIR, <<"a", ".", "c", "s", "v">>) :> file)
    @@ (Append(DATA_DIR, <<"n", "o", "t", "e", "s", ".", "t", "x", "t">>) :> MakeFile(AllExact, FALSE, <<>>))
    @@ (Append(APP_DIR, <<"b", ".", "c", "s", "v">>) :> MakeFile(AllExact, FALSE, OneLine))

\* the values of ?file= : absent, a listed file, an unknown name, a path
\* leaving the folder
Filenames == {<<>>, <<"a", ".", "c", "s", "v">>, <<"g", "h", "o", "s", "t", ".", "c", "s", "v">>, <<".", ".", "/", "b", ".", "c", "s", "v">>}

\* ---------------------------------------------------------- state machine
NoRequest == [path |-> "", file |-> <<>>]

NoResponse == [status |-> 0, template |-> ""]

Init ==
    /\ fs \in {FileSystem(f) : f \in Files}
    /\ request = NoRequest
    /\ response = NoResponse

\* GET /
Home ==
    /\ request' = [path |-> "/", file |-> <<>>]
    /\ response' = [status |-> 200, template |-> "home.html", files |-> list_csv_files]
    /\ UNCHANGED fs

\* GET /report?file=filename
Report(filename) ==
    /\ request' = [path |-> "/report", file |-> filename]
    /\ response' \in report(filename)
    /\ UNCHANGED fs

Next ==
    \/ Home
    \/ \E filename \in Filenames : Report(filename)

Spec == Init /\ [][Next]_vars

\* ------------------------------------------------------------ properties
IsReport == response.template = "report.html"

\* a request that reached load_csv
AskedFile == request.path = "/report" /\ request.file # <<>>

RequestedPath == resolve(<<>>, path_join(DATA_DIR, request.file))

FileExists == RequestedPath \in DOMAIN fs /\ fs[RequestedPath].type = "file"

RequestedFile == fs[RequestedPath]

\* the header label h is the column c, whatever its case and padding
Names(h, c) == h = c \/ h = Variant(c)

Written(file, c) == \E j \in 1..Len(file.header) : Names(file.header[j], c)

\* the text of column c on line i of the file
Field(file, i, c) ==
    file.lines[i][CHOOSE j \in 1..Len(file.header) : Names(file.header[j], c)]

IsNumberText(t) == IsDigits(t) \/ (Len(t) > 1 /\ Head(t) = "-" /\ IsDigits(Tail(t)))

NumberOf(t) == IF Head(t) = "-" THEN 0 - parse_digits(Tail(t)) ELSE parse_digits(t)

Rows == 1..Len(response.table)

Amount(i) == response.table[i][AMOUNT]

Category(i) == response.table[i][CATEGORY]

\* the sum of the amounts of the rows I of the report's table, null as 0
RECURSIVE SumRows(_)
SumRows(I) ==
    IF I = {} THEN 0
    ELSE LET i == CHOOSE x \in I : TRUE
         IN  (IF Amount(i).k = "num" THEN Amount(i).n ELSE 0) + SumRows(I \ {i})

RECURSIVE SumSeq(_)
SumSeq(ns) == IF ns = <<>> THEN 0 ELSE Head(ns) + SumSeq(Tail(ns))

Totals == response.category_totals

TotalOf(c) == Totals.values[IndexOf(Totals.index, c)]

\* C1: in every report, isIncome flags exactly the rows with amount > 0 and
\* isExpense exactly the rows with amount < 0, totalIncome is the sum of the
\* amounts of the isIncome rows, totalExpense the sum of the amounts of the
\* isExpense rows, and net is totalIncome + totalExpense.
C1_IncomeExpenseNet ==
    IsReport =>
        /\ \A i \in Rows : response.table[i][IS_INCOME].b <=> (Amount(i).k = "num" /\ Amount(i).n > 0)
        /\ \A i \in Rows : response.table[i][IS_EXPENSE].b <=> (Amount(i).k = "num" /\ Amount(i).n < 0)
        /\ response.income = SumRows({i \in Rows : response.table[i][IS_INCOME].b})
        /\ response.expense = SumRows({i \in Rows : response.table[i][IS_EXPENSE].b})
        /\ response.net = response.income + response.expense

\* a report with an income row and an expense row that cancel out
C1_Witness ==
    /\ IsReport
    /\ response.income > 0
    /\ response.expense < 0
    /\ response.net = 0

C3_ExpenseCategories ==
    IsReport =>
        /\ DOMAIN response.spent_per_category =
               {Totals.index[k] : k \in {l \in 1..Len(Totals.index) : Totals.values[l] < 0}}
        /\ \A c \in DOMAIN response.spent_per_category :
               response.spent_per_category[c] = TotalOf(c) /\ response.spent_per_category[c] < 0

\* a report with an expense category next to a category whose only amount
\* is null, which totals zero
C3_Witness ==
    /\ IsReport
    /\ response.spent_per_category # << >>
    /\ \E k \in 1..Len(Totals.index) :
           /\ Totals.values[k] = 0
           /\ \A i \in Rows : Category(i).s = Totals.index[k] => Amount(i) = NaN

MissingOf(file) == SelectSeq(EXPECTED_COLS, LAMBDA c : ~Written(file, c))

IsSchemaError == response.status = 400 /\ response.error = "Missing columns"

\* C4: a request for an existing file is answered with the schema error
\* (400) exactly when one of the six required columns is not in the header,
\* whatever the case and padding of the labels and whatever other columns
\* there are; the error lists the missing columns, all of them and no other:
\* for a header of date, amount and category it lists transaction type,
\* transaction details and merchant name.
C4_SchemaError ==
    (AskedFile /\ FileExists) =>
        /\ IsSchemaError <=> MissingOf(RequestedFile) # <<>>
        /\ IsSchemaError => response.missing = MissingOf(RequestedFile)
        /\ RequestedFile.header = <<DATE, AMOUNT, CATEGORY>> =>
               IsSchemaError /\ response.missing = <<TRANSACTION_TYPE, TRANSACTION_DETAILS, MERCHANT_NAME>>

\* the schema error for a header with an extra column, a padded upper-case
\* DATE, and three required columns missing
C4_Witness ==
    /\ AskedFile /\ FileExists
    /\ IsSchemaError
    /\ Len(response.missing) = 3
    /\ RequestedFile.header[1] = NOTES
    /\ RequestedFile.header[2] = Variant(DATE)

\* the requested identifier names a file inside the transactions folder
InsideDataDir ==
    /\ FileExists
    /\ Len(RequestedPath) > Len(DATA_DIR)
    /\ SubSeq(RequestedPath, 1, Len(DATA_DIR)) = DATA_DIR

\* C5: a request whose identifier does not name a file inside the
\* transactions folder is answered 404 and gets no report; a table is
\* loaded only for an identifier that names a file in that folder.
C5_NotFound ==
    AskedFile =>
        /\ ~InsideDataDir => response.status = 404
        /\ response.status # 404 => InsideDataDir

\* the table load_csv returns before it is sorted
Unsorted ==
    LET df == read_csv(RequestedPath)
    IN  normalize_fields([df EXCEPT !.columns = normalize_columns(df.columns)])

\* the one stable ascending order of keys, missing keys last
StableOrder(keys) ==
    CHOOSE p \in Perms(Len(keys)) :
        \A i, j \in 1..Len(keys) : i < j =>
            \/ ~isna(keys[p[i]]) /\ isna(keys[p[j]])
            \/ ~isna(keys[p[i]]) /\ ~isna(keys[p[j]]) /\ keys[p[i]].ord < keys[p[j]].ord
            \/ keys[p[i]] = keys[p[j]] /\ p[i] < p[j]

\* C6: the table of a report is the input sorted ascending by normalized
\* date with a stable sort: rows of equal date keep their input order.
C6_StableSort ==
    IsReport =>
        response.table =
            to_records(classify_transactions(take(Unsorted, StableOrder(column(Unsorted, DATE)))))

\* row i of the report's table is line l of the file as far as the amount goes
SameAmount(i, l) ==
    LET t == Field(RequestedFile, l, AMOUNT)
    IN  IF IsNumberText(t) THEN Amount(i) = NumCell(NumberOf(t)) ELSE Amount(i) = NaN

\* C7: a request for an existing file with the six columns always gets a
\* report; its table has one row per line of the file, a line whose amount
\* is not a number is a row with a null amount and both flags false, and
\* such rows add nothing to totalIncome, totalExpense, net and the category
\* totals.
C7_UnparseableAmount ==
    (AskedFile /\ FileExists /\ MissingOf(RequestedFile) = <<>>) =>
        /\ IsReport
        /\ \E p \in Perms(Len(RequestedFile.lines)) :
               /\ Len(response.table) = Len(RequestedFile.lines)
               /\ \A i \in Rows : SameAmount(i, p[i])
        /\ \A i \in Rows : Amount(i) = NaN =>
               ~response.table[i][IS_INCOME].b /\ ~response.table[i][IS_EXPENSE].b
        /\ response.income = SumRows({i \in Rows : Amount(i) # NaN /\ Amount(i).n > 0})
        /\ response.expense = SumRows({i \in Rows : Amount(i) # NaN /\ Amount(i).n < 0})
        /\ response.net = SumRows({i \in Rows : Amount(i) # NaN})
        /\ \A k \in 1..Len(Totals.index) :
               Totals.values[k] = SumRows({i \in Rows : Amount(i) # NaN /\ Category(i).s = Totals.index[k]})

\* a report of a file with the amounts N/A and x, both rows kept
C7_Witness ==
    /\ IsReport
    /\ FileExists
    /\ Len(response.table) = 2
    /\ \A i \in Rows : Amount(i) = NaN
    /\ \E l \in 1..Len(RequestedFile.lines) : Field(RequestedFile, l, AMOUNT) = <<"N", "/", "A">>
    /\ \E l \in 1..Len(RequestedFile.lines) : Field(RequestedFile, l, AMOUNT) = <<"x">>

\* row i of the report's table is line l of the file as far as the amount
\* goes, and is Uncategorized if the line has no category
SameDefaulted(i, l) ==
    /\ SameAmount(i, l)
    /\ Field(RequestedFile, l, CATEGORY) = <<>> => Category(i) = StrCell(Uncategorized)

UncategorizedRows == {i \in Rows : Category(i) = StrCell(Uncategorized)}

\* C8: in every report, a line with an empty category is a row of category
\* "Uncategorized"; the amounts of these rows are summed in the
\* "Uncategorized" entry of the category totals, and that entry is in
\* expenseCategoryTotals with the same sum when the sum is negative.
C8_DefaultCategory ==
    IsReport =>
        /\ \E p \in Perms(Len(RequestedFile.lines)) :
               /\ Len(response.table) = Len(RequestedFile.lines)
               /\ \A i \in Rows : SameDefaulted(i, p[i])
        /\ \A i \in Rows : Category(i).k = "str" /\ Category(i).s # <<>>
        /\ UncategorizedRows # {} =>
               /\ InSeq(Totals.index, Uncategorized)
               /\ TotalOf(Uncategorized) = SumRows(UncategorizedRows)
               /\ SumRows(UncategorizedRows) < 0 =>
                      /\ Uncategorized \in DOMAIN response.spent_per_category
                      /\ response.spent_per_category[Uncategorized] = SumRows(UncategorizedRows)

\* a report of a file with two lines without category, summed as an expense
C8_Witness ==
    /\ IsReport
    /\ Len(RequestedFile.lines) = 2
    /\ \A l \in 1..2 : Field(RequestedFile, l, CATEGORY) = <<>>
    /\ Cardinality(UncategorizedRows) = 2
    /\ Uncategorized \in DOMAIN response.spent_per_category
    /\ response.spent_per_category[Uncategorized] = 0 - 10

\* C9: normalizing the table load_csv returned gives that table again: the
\* same rows, the same values, the same order.
C9_Idempotent ==
    IsReport =>
        \A out \in load_csv(request.file) :
            to_records(classify_transactions(out.df)) = response.table => normalize(out.df) = {out}

\* row i of the report's table is line l of the file as far as the amount
\* goes, and its category is the trimmed category of the line
SameTrimmed(i, l) ==
    /\ SameAmount(i, l)
    /\ Field(RequestedFile, l, CATEGORY) # <<>> =>
           Category(i) = StrCell(strip(Field(RequestedFile, l, CATEGORY)))

\* C10: in every report, the category of a row whose line has a category is
\* that text without its leading and trailing whitespace, and categories
\* that differ only in such whitespace share one category total.
C10_TrimmedCategory ==
    IsReport =>
        /\ \E p \in Perms(Len(RequestedFile.lines)) :
               /\ Len(response.table) = Len(RequestedFile.lines)
               /\ \A i \in Rows : SameTrimmed(i, p[i])
        /\ \A k, l \in 1..Len(Totals.index) :
               strip(Totals.index[k]) = strip(Totals.index[l]) => k = l
====
